---- MODULE Spec2Model ----
(***************************************************************************)
(* Model of the FTP client of src/client.py (class FtpClient) and of the   *)
(* threads of its front-end, src/gui.py.                                   *)
(*                                                                         *)
(* The client itself is synchronous: one public operation called by the    *)
(* only thread there is, is one action (in SpecGui a call begins and ends  *)
(* in separate steps).  An operation is a sequential program that may      *)
(* raise; it is                                                            *)
(* written as a composition of steps over a "frame" record m holding the   *)
(* instance fields, the locals of the running method, the wire trace of    *)
(* the call and the exception in flight (m.err).  A step maps a frame to   *)
(* the SET of frames it can produce: the choices are the environment's     *)
(* (what the server replies, whether a socket call fails).  Then(S, F)     *)
(* runs F on every frame of S that carries no exception and leaves the     *)
(* others alone, which is how a Python exception skips the rest of a body. *)
(***************************************************************************)
EXTENDS Naturals, Sequences, FiniteSets

VARIABLES
    host,                      \* self.host (None when unset)
    user,                      \* self.user (None when unset)
    command_socket,            \* state of the object in self._command_socket
    data_socket,               \* state of the object in self._data_socket
    data_port,                 \* self._data_port
    data_socket_is_connected,  \* self._data_socket_is_connected
    lastOp,                    \* the public operation that ran last, with its arguments
    result,                    \* how it ended: NoErr, or the exception that reached the caller
    ret,                       \* the value it returned (NoneRet when it raised)
    wire,                      \* what it did on the sockets and the local disk, in order
    pre,                       \* host, user, data-channel flag and history when it was called
    everConnected,             \* history: some connect has established the control connection
    login230,                  \* history: a login got a 230 reply since the last established connect
    loggedOut,                 \* history: a logout returned and no login got a 230 reply since
    note,                      \* history: what the last call was, for the claims about "the next call"
    srv,                       \* the server the client talks to (see "The server")
    local_files,               \* the local disk: the content of each local path
    track,                     \* history: the rename or store that returned last, and what followed it
    running                    \* the front-end: per thread, where it is and the call it makes

vars == <<host, user, command_socket, data_socket, data_port,
          data_socket_is_connected, lastOp, result, ret, wire, pre,
          everConnected, login230, loggedOut, note, srv, local_files, track,
          running>>

-----------------------------------------------------------------------------
(* Bounds of the model *)

NumGoodHosts == 2     \* resolvable hosts that accept the control connection and greet
NumUsers     == 2     \* user names a caller logs in with
NumPorts     == 1     \* ports a passive-mode reply can advertise
RcvChunk     == 2     \* bytes one recv on the data socket returns at most
MaxThreads   == 2     \* transfer threads of the front-end alive at a time

(* Program constants *)
PORT == 21

None    == "None"
NoneRet == <<"None">>
NoErr   == "none"
NoPort  == <<>>       \* self._data_port = None; a port p is held as <<p>>

HostNames == <<"ftp1.example", "ftp2.example", "ftp3.example", "ftp4.example">>
UserNames == <<"dlpuser", "alice", "bob", "carol">>
Digits    == <<"1", "2", "3", "4", "5", "6", "7", "8", "9">>

GoodHosts     == {HostNames[i] : i \in 1..NumGoodHosts}
InvalidHosts  == {"unreachable.invalid"}   \* name resolution fails
RefusingHosts == {"refusing.example"}      \* resolves, port 21 refuses
SilentHosts   == {"silent.example"}        \* resolves, the connect times out
MuteHosts     == {"mute.example"}          \* accepts the connection, never greets
Hosts == GoodHosts \cup InvalidHosts \cup RefusingHosts \cup SilentHosts \cup MuteHosts
Users == {UserNames[i] : i \in 1..NumUsers}
Ports == 1..NumPorts

-----------------------------------------------------------------------------
(* Reply buffers are byte strings, modelled as sequences of characters.    *)

Status_LOGIN_SUCCESS  == <<"2", "3", "0">>
Status_LOGIN_FAIL     == <<"5", "3", "0">>
Status_FILE_NOT_FOUND == <<"5", "5", "0">>

\* "229 |||<port>|": an extended-passive-mode reply advertising a port
EpsvReply(p) == <<"2", "2", "9", " ", "|", "|", "|", Digits[p], "|">>
\* 257 "/": a PWD reply carrying a quoted path
PwdReply == <<"2", "5", "7", " ", "\"", "/", "\"">>

\* other replies a server sends; the client tells none of them apart
R150 == <<"1", "5", "0">>   \* about to open the data connection
R220 == <<"2", "2", "0">>   \* greeting
R221 == <<"2", "2", "1">>   \* goodbye
R226 == <<"2", "2", "6">>   \* transfer complete
R250 == <<"2", "5", "0">>   \* action completed
R331 == <<"3", "3", "1">>   \* user name okay, need password
R332 == <<"3", "3", "2">>   \* need account for login
R350 == <<"3", "5", "0">>   \* pending further information
R500 == <<"5", "0", "0">>   \* command not understood
R425 == <<"4", "2", "5">>   \* cannot open the data connection
R503 == <<"5", "0", "3">>   \* bad sequence of commands

\* The replies a server gives to a command: one of each kind the client
\* distinguishes after that command, and one it does not.
ReplyTo(command) ==
    CASE command = "USER" -> {R331}
      [] command = "PASS" -> {Status_LOGIN_SUCCESS, Status_LOGIN_FAIL, R332}
      [] command = "QUIT" -> {R221}
      [] command = "EPSV" -> {EpsvReply(p) : p \in Ports} \cup {R500}
      [] command = "PWD"  -> {PwdReply, Status_FILE_NOT_FOUND}
      [] command \in {"LIST", "RETR", "STOR"} -> {R150, Status_FILE_NOT_FOUND}
      [] command = "RNFR" -> {R350, Status_FILE_NOT_FOUND}
      [] OTHER -> {R250, Status_FILE_NOT_FOUND}

\* What one recv on the control socket can return, given what the call has
\* put on the wire so far: the greeting when nothing was sent, the reply to
\* the last command when none was read since, its completion reply after.
LastSend(w) ==
    IF \E i \in 1..Len(w) : w[i][1] = "send"
    THEN CHOOSE i \in 1..Len(w) :
            /\ w[i][1] = "send"
            /\ \A j \in (i + 1)..Len(w) : w[j][1] # "send"
    ELSE 0

Replies(w) ==
    LET i == LastSend(w)
    IN  IF i = 0 THEN {R220}
        ELSE IF \E j \in (i + 1)..Len(w) : w[j][1] = "recv" THEN {R226}
        ELSE ReplyTo(w[i][2])

\* what a drain of the data socket can return: nothing, or bytes that hold
\* the four characters backslash, r, backslash, n
Payloads == {<<>>, <<"a", "\\", "r", "\\", "n">>}

\* bytes.startswith
StartsWith(data, prefix) ==
    /\ Len(data) >= Len(prefix)
    /\ SubSeq(data, 1, Len(prefix)) = prefix

\* str.split(sep) for a one-character separator: the list of fields
RECURSIVE SplitFrom(_, _, _, _)
SplitFrom(s, sep, i, cur) ==
    IF i > Len(s) THEN <<cur>>
    ELSE IF s[i] = sep THEN <<cur>> \o SplitFrom(s, sep, i + 1, <<>>)
    ELSE SplitFrom(s, sep, i + 1, Append(cur, s[i]))

Split(s, sep) == SplitFrom(s, sep, 1, <<>>)

DigitValue(c) == CHOOSE d \in 0..9 : (d = 0 /\ c = "0") \/ (d > 0 /\ c = Digits[d])
IsDigit(c) == c = "0" \/ \E d \in 1..9 : c = Digits[d]

\* int(text) for a decimal string; IsInt says whether int() accepts it
IsInt(s) == Len(s) > 0 /\ \A i \in 1..Len(s) : IsDigit(s[i])
RECURSIVE IntOf(_)
IntOf(s) ==
    IF Len(s) = 0 THEN 0
    ELSE 10 * IntOf(SubSeq(s, 1, Len(s) - 1)) + DigitValue(s[Len(s)])

-----------------------------------------------------------------------------
(* Frames and the sequencing of steps *)

Frame(op) ==
    [host |-> host, user |-> user,
     command_socket |-> command_socket, data_socket |-> data_socket,
     data_port |-> data_port,
     data_socket_is_connected |-> data_socket_is_connected,
     op |-> op, err |-> NoErr, ret |-> NoneRet, wire |-> <<>>,
     val |-> NoneRet, data |-> <<>>,
     srv |-> srv, local_files |-> local_files]

Raise(m, e) == [m EXCEPT !.err = e]
Log(m, ev)  == [m EXCEPT !.wire = Append(@, ev)]
Return(m, v) == [m EXCEPT !.ret = v]

Then(S, F(_)) == UNION {IF x.err = NoErr THEN F(x) ELSE {x} : x \in S}

-----------------------------------------------------------------------------
(* The server and the local disk.  With srv.faithful = FALSE the server is *)
(* any server at all: what it replies and serves is chosen where the       *)
(* client reads it, a socket call may time out, a local file may fail to   *)
(* open, and srv and local_files never change.  With srv.faithful = TRUE   *)
(* the server keeps files, answers each command as it arrives with one     *)
(* reply (a preliminary and a completion reply for an accepted LIST, RETR  *)
(* or STOR), nothing is lost, and the local disk holds what was written to *)
(* it.  A reply takes a round trip to arrive: it is in flight while the    *)
(* client goes from sending the command to reading, and has arrived once   *)
(* the client has blocked on a transfer or returned to its caller.         *)
(*   peer    the host the control connection is with (None: no connection) *)
(*   user    the name given by the last USER                               *)
(*   files   the content held under each name (the accepting hosts are     *)
(*           names of one server)                                          *)
(*   unread  the replies that have arrived at the client and are not read  *)
(*   flight  the replies sent and not yet arrived                          *)
(*   listen  the port the server listens on for a data connection, as <<p>>*)
(*   dconn   its end of the data connection: "none", "open" or "done"      *)
(*   out     what it has written on the data connection, held as <<bytes>> *)
(*   up      the name it will store the bytes of the data connection under *)
(*   rnfr    the name given by the last accepted RNFR                      *)

RemoteNames == {"TestUpload.kml", "TestUpload2.kml"}
LocalNames  == {"TestUpload.kml", "copy.kml"}
Absent      == <<"absent">>     \* no file under that name
NoData      == <<>>
KnownUsers  == {UserNames[1]}   \* the accounts of a faithful server

\* the server sends reply r
Reply(m, r) == [m EXCEPT !.srv.flight = Append(@, r)]

\* time passes: what was in flight arrives
Arrive(m) == [m EXCEPT !.srv.unread = @ \o m.srv.flight, !.srv.flight = <<>>]

\* the server holds a file under name f
Exists(m, f) == f \in RemoteNames /\ m.srv.files[f] # Absent

\* the bytes of the replies rs, one after the other
RECURSIVE Joined(_)
Joined(rs) == IF rs = <<>> THEN <<>> ELSE Head(rs) \o Joined(Tail(rs))

\* the server accepts the control connection of the client and greets
ServerAccept(m, h) ==
    IF ~m.srv.faithful THEN m
    ELSE [m EXCEPT !.srv.peer = h, !.srv.unread = <<>>,
                   !.srv.flight = IF h \in GoodHosts THEN <<R220>> ELSE <<>>,
                   !.srv.user = None, !.srv.rnfr = None, !.srv.listen = NoPort,
                   !.srv.dconn = "none", !.srv.out = NoData, !.srv.up = None]

\* the client closed its control socket
ServerGone(m) ==
    IF ~m.srv.faithful THEN m
    ELSE [m EXCEPT !.srv.peer = None, !.srv.unread = <<>>, !.srv.flight = <<>>,
                   !.srv.user = None, !.srv.rnfr = None, !.srv.listen = NoPort]

\* the client closed or dropped its data socket
DataClosed(m) ==
    IF ~m.srv.faithful THEN m
    ELSE [m EXCEPT !.srv.dconn = "none", !.srv.out = NoData, !.srv.up = None]

\* the server accepts the data connection on port p
DataAccepted(m, p) ==
    IF ~m.srv.faithful THEN m
    ELSE [m EXCEPT !.srv.listen = NoPort, !.srv.dconn = "open", !.srv.out = NoData]

\* a faithful server receives a command: the frames after it has answered
ServerOn(m, command, arg) ==
    LET s == m.srv
    IN  IF ~s.faithful \/ s.peer \notin GoodHosts THEN {m}
        ELSE CASE command = "USER" -> {Reply([m EXCEPT !.srv.user = arg], R331)}
          [] command = "PASS" ->
                {Reply([m EXCEPT !.srv.user = None],
                       IF s.user \in KnownUsers THEN Status_LOGIN_SUCCESS
                       ELSE Status_LOGIN_FAIL)}
          [] command = "QUIT" -> {Reply(m, R221)}
          [] command = "EPSV" ->
                {Reply([m EXCEPT !.srv.listen = <<p>>], EpsvReply(p)) : p \in Ports}
          [] command = "PWD" -> {Reply(m, PwdReply)}
          [] command = "DELE" ->
                IF Exists(m, arg)
                THEN {Reply([m EXCEPT !.srv.files[arg] = Absent], R250)}
                ELSE {Reply(m, Status_FILE_NOT_FOUND)}
          [] command = "RNFR" ->
                IF Exists(m, arg) THEN {Reply([m EXCEPT !.srv.rnfr = arg], R350)}
                ELSE {Reply([m EXCEPT !.srv.rnfr = None], Status_FILE_NOT_FOUND)}
          [] command = "RNTO" ->
                IF s.rnfr # None /\ arg \in RemoteNames /\ arg # s.rnfr
                THEN {Reply([m EXCEPT !.srv.files[arg] = s.files[s.rnfr],
                                      !.srv.files[s.rnfr] = Absent,
                                      !.srv.rnfr = None], R250)}
                ELSE {Reply([m EXCEPT !.srv.rnfr = None], R503)}
          [] command = "LIST" ->
                IF s.dconn = "open"
                THEN {Reply(Reply([m EXCEPT !.srv.out = <<d>>, !.srv.dconn = "done"],
                                  R150), R226) : d \in Payloads}
                ELSE {Reply(m, R425)}
          [] command = "RETR" ->
                IF ~Exists(m, arg) THEN {Reply(m, Status_FILE_NOT_FOUND)}
                ELSE IF s.dconn = "open"
                THEN {Reply(Reply([m EXCEPT !.srv.out = <<s.files[arg]>>,
                                            !.srv.dconn = "done"], R150), R226)}
                ELSE {Reply(m, R425)}
          [] command = "STOR" ->
                IF s.dconn = "open" /\ arg \in RemoteNames
                THEN {Reply([m EXCEPT !.srv.up = arg], R150)}
                ELSE {Reply(m, R425)}
          [] OTHER -> {Reply(m, R250)}

\* the client has written file_data on the data connection and closed it:
\* a faithful server stores the bytes and sends the completion reply
ServerStored(m, file_data) ==
    IF ~m.srv.faithful \/ m.srv.up = None THEN DataClosed(m)
    ELSE DataClosed(Reply([m EXCEPT !.srv.files[m.srv.up] = file_data], R226))

\* the loop of _read_from_data_connection over what the peer wrote: recv
\* returns at most RcvChunk bytes, and nothing once the peer has closed
RECURSIVE DrainFrom(_, _)
DrainFrom(rest, total_data) ==
    LET n == IF Len(rest) < RcvChunk THEN Len(rest) ELSE RcvChunk
        data == SubSeq(rest, 1, n)
    IN  IF data = <<>> THEN total_data
        ELSE DrainFrom(SubSeq(rest, n + 1, Len(rest)), total_data \o data)

-----------------------------------------------------------------------------
(* Session State: the two gates *)

\* mutant: the connectivity gate lets every call through
is_connected_unchecked(m) == {[m EXCEPT !.val = NoneRet]}

\* FtpClient._is_connected
is_connected(m) ==
    IF m.host = None THEN {Raise(m, "NotConnected")} ELSE {[m EXCEPT !.val = NoneRet]}

\* FtpClient._is_authenticated (returns None when it does not raise)
is_authenticated(m) ==
    IF m.user = None THEN {Raise(m, "NotAuthenticated")} ELSE {[m EXCEPT !.val = NoneRet]}

\* Python truth value of what a call returned
Truthy(v) == v # NoneRet /\ v # <<>>

-----------------------------------------------------------------------------
(* Sockets.  A socket object is "fresh" (just allocated), "connected",     *)
(* "failed" (a connect on it raised) or "closed".                          *)

\* FtpClient._reset_command_socket
reset_command_socket(m) ==
    LET closed == IF m.host # None THEN ServerGone(Log(m, <<"close_command_socket">>))
                  ELSE m
    IN  [closed EXCEPT !.command_socket = "fresh"]

\* FtpClient._reset_data_socket
reset_data_socket(m) ==
    [DataClosed(m) EXCEPT !.data_socket = "fresh", !.data_socket_is_connected = FALSE]

\* mutant: a reset that forgets to clear the user
reset_sockets_keeps_user(m) ==
    [reset_data_socket(reset_command_socket(m)) EXCEPT !.host = None]

\* FtpClient._reset_sockets
reset_sockets(m) ==
    [reset_data_socket(reset_command_socket(m)) EXCEPT !.host = None, !.user = None]

\* What socket.connect does towards host h: the name is resolved first; a
\* fresh socket then meets the host as it is; a connect on a socket whose
\* earlier connect failed is platform dependent (it may also raise EINVAL).
NaturalOutcome(h) ==
    IF h \in InvalidHosts THEN "gaierror"
    ELSE IF h \in RefusingHosts THEN "ECONNREFUSED"
    ELSE IF h \in SilentHosts THEN "ETIMEDOUT"
    ELSE "ok"

ConnectOutcomes(sock, h) ==
    IF h \in InvalidHosts THEN {"gaierror"}
    ELSE IF sock = "fresh" THEN {NaturalOutcome(h)}
    ELSE IF sock = "failed" THEN {NaturalOutcome(h), "EINVAL"}
    ELSE IF sock = "connected" THEN {"EISCONN"}
    ELSE {"EBADF"}

\* what sendall on a connected socket can do
SendOutcomes == {"ok", "socket.timeout"}
SendOutcomesAt(m) == IF m.srv.faithful THEN {"ok"} ELSE SendOutcomes

\* FtpClient._send_command
send_command(m, command, arg) ==
    IF m.command_socket # "connected" THEN {Raise(m, "OSError")}
    ELSE UNION {IF o = "ok" THEN ServerOn(Log(m, <<"send", command, arg>>), command, arg)
                ELSE {Raise(m, "SocketTimeout")} : o \in SendOutcomesAt(m)}

\* FtpClient._receive_command_data: one recv, returned verbatim; a timeout
\* or another socket error is not caught.  The greeting of a host that
\* greets arrives; any later reply may be late.
receive_command_data(m) ==
    IF m.command_socket # "connected" THEN {Raise(m, "OSError")}
    ELSE IF m.srv.faithful THEN
        \* what has arrived is returned at once, all of it; with nothing
        \* there the call blocks until the next reply arrives
        IF m.srv.unread # <<>>
        THEN {[Log(m, <<"recv", Joined(m.srv.unread)>>)
                  EXCEPT !.val = Joined(m.srv.unread), !.srv.unread = <<>>]}
        ELSE IF m.srv.flight # <<>>
        THEN {[Log(m, <<"recv", Head(m.srv.flight)>>)
                  EXCEPT !.val = Head(m.srv.flight), !.srv.flight = Tail(@)]}
        ELSE {Raise(m, "socket.timeout")}
    ELSE IF LastSend(m.wire) = 0 /\ m.host \in MuteHosts THEN {Raise(m, "socket.timeout")}
    ELSE {[Log(m, <<"recv", r>>) EXCEPT !.val = r] : r \in Replies(m.wire)}
            \cup (IF LastSend(m.wire) = 0 THEN {} ELSE {Raise(m, "socket.timeout")})

\* data = self._receive_command_data()
assign_data(m) == {[m EXCEPT !.data = m.val]}

\* return data
return_data(m) == {Return(m, m.data)}

\* send one command, read one reply into data
exchange(m, command, arg) ==
    Then(Then(send_command(m, command, arg), receive_command_data), assign_data)

-----------------------------------------------------------------------------
(* connect, login, logout, disconnect *)

\* mutant: connect on a connected session skips the reset
connect_no_reset(m, h) ==
    LET m1 == m
        attempt(o) ==
            IF o = "ok" THEN
                {[ServerAccept(Log(m1, <<"connect", h, PORT>>), h)
                    EXCEPT !.command_socket = "connected", !.host = h]}
            ELSE IF o = "gaierror" THEN
                {Raise(reset_sockets(m1), "UnknownHost")}
            ELSE IF o = "ECONNREFUSED" THEN
                {Raise([m1 EXCEPT !.command_socket = "failed"], "ConnectionRefused")}
            ELSE \* any other socket.error is swallowed by the except clause
                {[m1 EXCEPT !.command_socket =
                                IF @ = "connected" THEN @ ELSE "failed"]}
        tried == UNION {attempt(o) : o \in ConnectOutcomes(m1.command_socket, h)}
    IN  Then(Then(tried, receive_command_data), LAMBDA x : {Return(x, x.val)})

\* FtpClient.connect
connect(m, h) ==
    LET m1 == IF m.host # None THEN reset_sockets(m) ELSE m
        attempt(o) ==
            IF o = "ok" THEN
                {[ServerAccept(Log(m1, <<"connect", h, PORT>>), h)
                    EXCEPT !.command_socket = "connected", !.host = h]}
            ELSE IF o = "gaierror" THEN
                {Raise(reset_sockets(m1), "UnknownHost")}
            ELSE IF o = "ECONNREFUSED" THEN
                {Raise([m1 EXCEPT !.command_socket = "failed"], "ConnectionRefused")}
            ELSE \* any other socket.error is swallowed by the except clause
                {[m1 EXCEPT !.command_socket =
                                IF @ = "connected" THEN @ ELSE "failed"]}
        tried == UNION {attempt(o) : o \in ConnectOutcomes(m1.command_socket, h)}
    IN  Then(Then(tried, receive_command_data), LAMBDA x : {Return(x, x.val)})

\* mutant: a logout that passes the gates and forgets to clear the user
logout_keeps_user(m) ==
    Then(Then(is_connected(m), is_authenticated), LAMBDA x : {Return(x, NoneRet)})

\* FtpClient.logout
logout(m) ==
    Then(Then(is_connected(m), is_authenticated),
         LAMBDA x : {Return([x EXCEPT !.user = None], NoneRet)})

\* mutant: the user is recorded whatever the PASS reply is
login_records_always(m, u) ==
    LET s1 == Then(is_connected(m), LAMBDA x : send_command(x, "USER", u))
        s2 == Then(s1, receive_command_data)
        s3 == Then(s2, LAMBDA x : exchange(x, "PASS", "password"))
        s4 == Then(s3, LAMBDA x : {[x EXCEPT !.user = u]})
    IN  Then(s4, return_data)

\* mutant: a 530 reply leaves the user as it was
login_ignores_530(m, u) ==
    LET s1 == Then(is_connected(m), LAMBDA x : send_command(x, "USER", u))
        s2 == Then(s1, receive_command_data)
        s3 == Then(s2, LAMBDA x : exchange(x, "PASS", "password"))
        s4 == Then(s3, LAMBDA x :
                 IF StartsWith(x.data, Status_LOGIN_SUCCESS) THEN {[x EXCEPT !.user = u]}
                 ELSE {x})
    IN  Then(s4, return_data)

\* mutant: any PASS reply other than 230 unsets the user
login_clears_unless_230(m, u) ==
    LET s1 == Then(is_connected(m), LAMBDA x : send_command(x, "USER", u))
        s2 == Then(s1, receive_command_data)
        s3 == Then(s2, LAMBDA x : exchange(x, "PASS", "password"))
        s4 == Then(s3, LAMBDA x :
                 IF StartsWith(x.data, Status_LOGIN_SUCCESS) THEN {[x EXCEPT !.user = u]}
                 ELSE {[x EXCEPT !.user = None]})
    IN  Then(s4, return_data)

\* FtpClient.login
login(m, u) ==
    LET s1 == Then(is_connected(m), LAMBDA x : send_command(x, "USER", u))
        s2 == Then(s1, receive_command_data)
        s3 == Then(s2, LAMBDA x : exchange(x, "PASS", "password"))
        s4 == Then(s3, LAMBDA x :
                 IF StartsWith(x.data, Status_LOGIN_SUCCESS) THEN {[x EXCEPT !.user = u]}
                 ELSE IF StartsWith(x.data, Status_LOGIN_FAIL) THEN {[x EXCEPT !.user = None]}
                 ELSE {x})
    IN  Then(s4, return_data)

\* FtpClient.disconnect
disconnect(m) ==
    LET s1 == Then(is_connected(m), is_authenticated)
        s2 == Then(s1, LAMBDA x : IF Truthy(x.val)
                                  THEN {[y EXCEPT !.ret = NoneRet] : y \in logout(x)}
                                  ELSE {x})
        s3 == Then(s2, LAMBDA x : exchange(x, "QUIT", ""))
        s4 == Then(s3, LAMBDA x : {reset_sockets(x)})
    IN  Then(s4, return_data)

-----------------------------------------------------------------------------
(* Single-command operations *)

\* mutant: the authentication gate is consulted before the connectivity gate
simple_command_auth_first(m, command, arg) ==
    LET s1 == Then(is_authenticated(m), is_connected)
        s2 == Then(s1, LAMBDA x : exchange(x, command, arg))
    IN  Then(s2, return_data)

\* the body shared by cwd, cdup, mkd, dele and rmd
simple_command(m, command, arg) ==
    LET s1 == Then(is_connected(m), is_authenticated)
        s2 == Then(s1, LAMBDA x : exchange(x, command, arg))
    IN  Then(s2, return_data)

\* FtpClient.cwd
cwd(m, directory) == simple_command(m, "CWD", directory)
\* FtpClient.cdup
cdup(m) == simple_command(m, "CDUP", "")
\* FtpClient.mkd
mkd(m, directory) == simple_command(m, "MKD", directory)
\* FtpClient.dele
dele(m, filename) == simple_command(m, "DELE", filename)
\* FtpClient.rmd
rmd(m, directory) == simple_command(m, "RMD", directory)
\* FtpClient.rm: calls dele and returns nothing
rm(m, filename) == Then(dele(m, filename), LAMBDA x : {Return(x, NoneRet)})
\* FtpClient.rmdir: calls rmd and returns nothing
rmdir(m, directory) == Then(rmd(m, directory), LAMBDA x : {Return(x, NoneRet)})

\* mutant: RNTO is sent whatever the RNFR reply is
rename_always_rnto(m, old_filename, new_filename) ==
    LET s1 == Then(is_connected(m), is_authenticated)
        s2 == Then(s1, LAMBDA x : exchange(x, "RNFR", old_filename))
        s3 == Then(s2, LAMBDA x :
                 Then(send_command(x, "RNTO", new_filename), receive_command_data))
    IN  Then(s3, LAMBDA x : {Return(x, NoneRet)})

\* mutant: rename with the two names exchanged
rename_exchanged(m, old_filename, new_filename) ==
    LET s1 == Then(is_connected(m), is_authenticated)
        s2 == Then(s1, LAMBDA x : exchange(x, "RNFR", new_filename))
        s3 == Then(s2, LAMBDA x :
                 IF ~StartsWith(x.data, Status_FILE_NOT_FOUND)
                 THEN Then(send_command(x, "RNTO", old_filename), receive_command_data)
                 ELSE {x})
    IN  Then(s3, LAMBDA x : {Return(x, NoneRet)})

\* FtpClient.rename
rename(m, old_filename, new_filename) ==
    LET s1 == Then(is_connected(m), is_authenticated)
        s2 == Then(s1, LAMBDA x : exchange(x, "RNFR", old_filename))
        s3 == Then(s2, LAMBDA x :
                 IF ~StartsWith(x.data, Status_FILE_NOT_FOUND)
                 THEN Then(send_command(x, "RNTO", new_filename), receive_command_data)
                 ELSE {x})
    IN  Then(s3, LAMBDA x : {Return(x, NoneRet)})

-----------------------------------------------------------------------------
(* Data Connection *)

\* what connect on the data socket can do: the environment decides, except
\* that a closed socket cannot be connected
DataConnectOutcomes(sock) ==
    IF sock = "closed" THEN {"EBADF"}
    ELSE IF sock = "connected" THEN {"EISCONN"}
    ELSE {"ok", "gaierror", "ECONNREFUSED", "ETIMEDOUT"}

\* towards a faithful server the connect succeeds on a port it listens on
\* and is refused on any other
DataConnectOutcomesAt(m) ==
    IF ~m.srv.faithful \/ m.data_socket \in {"closed", "connected"}
    THEN DataConnectOutcomes(m.data_socket)
    ELSE (IF m.data_port = m.srv.listen THEN {"ok"} ELSE {"ECONNREFUSED"})
            \cup (IF m.data_socket = "failed" THEN {"EINVAL"} ELSE {})

\* self._data_port = int(data.decode("utf-8").split("|")[3])
parse_port(m) ==
    LET fields == Split(m.data, "|")
    IN  IF Len(fields) < 4 THEN {Raise(m, "IndexError")}
        ELSE IF ~IsInt(fields[4]) THEN {Raise(m, "ValueError")}
        ELSE {[m EXCEPT !.data_port = <<IntOf(fields[4])>>]}

\* mutant: a name-resolution failure on the data connect raises without a reset
connect_data_socket_no_reset(m) ==
    LET attempt(o) ==
            IF o = "ok" THEN
                [DataAccepted(Log(m, <<"data_connect", m.host, m.data_port>>), m.data_port[1])
                    EXCEPT !.data_socket = "connected",
                           !.data_socket_is_connected = TRUE]
            ELSE IF o = "gaierror" THEN
                Raise(m, "UnknownHost")
            ELSE IF o = "ECONNREFUSED" THEN
                Raise([m EXCEPT !.data_socket = "failed"], "ConnectionRefused")
            ELSE
                [m EXCEPT !.data_socket = IF @ \in {"connected", "closed"} THEN @ ELSE "failed",
                          !.data_socket_is_connected = TRUE]
    IN  {attempt(o) : o \in DataConnectOutcomesAt(m)}

\* mutant: a refused data connect marks the channel open before it raises
connect_data_socket_marks_refused(m) ==
    LET attempt(o) ==
            IF o = "ok" THEN
                [DataAccepted(Log(m, <<"data_connect", m.host, m.data_port>>), m.data_port[1])
                    EXCEPT !.data_socket = "connected",
                           !.data_socket_is_connected = TRUE]
            ELSE IF o = "gaierror" THEN
                Raise(reset_sockets(m), "UnknownHost")
            ELSE
                [m EXCEPT !.data_socket = IF @ \in {"connected", "closed"} THEN @ ELSE "failed",
                          !.data_socket_is_connected = TRUE]
    IN  {IF o = "ECONNREFUSED" THEN Raise(attempt(o), "ConnectionRefused") ELSE attempt(o) :
            o \in DataConnectOutcomesAt(m)}

\* the try statement of _open_data_connection and the lines after it
connect_data_socket(m) ==
    LET attempt(o) ==
            IF o = "ok" THEN
                [DataAccepted(Log(m, <<"data_connect", m.host, m.data_port>>), m.data_port[1])
                    EXCEPT !.data_socket = "connected",
                           !.data_socket_is_connected = TRUE]
            ELSE IF o = "gaierror" THEN
                Raise(reset_sockets(m), "UnknownHost")
            ELSE IF o = "ECONNREFUSED" THEN
                Raise([m EXCEPT !.data_socket = "failed"], "ConnectionRefused")
            ELSE \* any other socket.error is swallowed; the flag is set all the same
                [m EXCEPT !.data_socket = IF @ \in {"connected", "closed"} THEN @ ELSE "failed",
                          !.data_socket_is_connected = TRUE]
    IN  {attempt(o) : o \in DataConnectOutcomesAt(m)}

\* FtpClient._open_data_connection
open_data_connection(m) ==
    LET s1 == Then(is_connected(m), is_authenticated)
    IN  Then(s1, LAMBDA x :
            IF x.data_socket_is_connected THEN {x}
            ELSE Then(Then(exchange(x, "EPSV", ""), parse_port), connect_data_socket))

\* mutant: the socket is closed and replaced but the channel stays marked open
close_data_connection_keeps_flag(m) ==
    {[DataClosed(Log(m, <<"data_close">>)) EXCEPT !.data_socket = "fresh",
                                                  !.data_port = NoPort]}

\* FtpClient._close_data_connection
close_data_connection(m) ==
    {[reset_data_socket(Log(m, <<"data_close">>)) EXCEPT !.data_port = NoPort]}

\* FtpClient._data_connection, entering the with statement: the generator
\* runs up to its yield
data_connection_enter(m) == open_data_connection(m)

\* FtpClient._data_connection, leaving the with statement, for the frames S
\* its body ended in.  The generator has no try/finally around its yield,
\* so an exception raised by the body leaves through the yield and the close
\* after it does not run.
data_connection_exit(S) == Then(S, close_data_connection)

\* mutant: one recv on the data socket instead of the loop
read_from_data_connection_one_recv(m) ==
    IF m.data_socket # "connected" THEN {Raise(m, "OSError")}
    ELSE IF m.srv.faithful THEN
        IF m.srv.out # NoData
        THEN LET n == IF Len(m.srv.out[1]) < RcvChunk THEN Len(m.srv.out[1])
                      ELSE RcvChunk
                 data == SubSeq(m.srv.out[1], 1, n)
             IN  {[Arrive(Log(m, <<"data_read", data>>))
                      EXCEPT !.val = data, !.srv.out = NoData]}
        ELSE IF m.srv.dconn = "done"
        THEN {[Arrive(Log(m, <<"data_read", <<>>>>)) EXCEPT !.val = <<>>]}
        ELSE {Raise(Arrive(m), "socket.timeout")}
    ELSE {[Log(m, <<"data_read", d>>) EXCEPT !.val = d] : d \in Payloads}
            \cup {Raise(m, "socket.timeout")}

\* FtpClient._read_from_data_connection: recv until the peer closes
read_from_data_connection(m) ==
    IF m.data_socket # "connected" THEN {Raise(m, "OSError")}
    ELSE IF m.srv.faithful THEN
        IF m.srv.out # NoData
        THEN {[Arrive(Log(m, <<"data_read", DrainFrom(m.srv.out[1], <<>>)>>))
                  EXCEPT !.val = DrainFrom(m.srv.out[1], <<>>), !.srv.out = NoData]}
        ELSE IF m.srv.dconn = "done"
        THEN {[Arrive(Log(m, <<"data_read", <<>>>>)) EXCEPT !.val = <<>>]}
        ELSE {Raise(Arrive(m), "socket.timeout")}
    ELSE {[Log(m, <<"data_read", d>>) EXCEPT !.val = d] : d \in Payloads}
            \cup {Raise(m, "socket.timeout")}

\* FtpClient._write_to_data_connection: sendall, then close the socket
write_to_data_connection(m, file_data) ==
    IF m.data_socket # "connected" THEN {Raise(m, "OSError")}
    ELSE {[ServerStored(Log(m, <<"data_write", file_data>>), file_data)
              EXCEPT !.data_socket = "closed"]}
            \cup (IF m.srv.faithful THEN {} ELSE {Raise(m, "socket.timeout")})

-----------------------------------------------------------------------------
(* Data-bearing operations *)

\* .decode("utf-8").replace('\\r\\n', '\n') followed by .encode(): every
\* occurrence of the four characters backslash, r, backslash, n becomes a
\* line feed (the payloads are ASCII, which decode and encode leave alone)
RECURSIVE ReplaceEscapedCRLF(_)
ReplaceEscapedCRLF(s) ==
    IF Len(s) = 0 THEN <<>>
    ELSE IF Len(s) >= 4 /\ SubSeq(s, 1, 4) = <<"\\", "r", "\\", "n">>
         THEN <<"\n">> \o ReplaceEscapedCRLF(SubSeq(s, 5, Len(s)))
    ELSE <<s[1]>> \o ReplaceEscapedCRLF(SubSeq(s, 2, Len(s)))

\* FtpClient.list
list(m, filename) ==
    LET body(b) ==
            Then(exchange(b, "LIST", filename), LAMBDA x :
                IF ~StartsWith(x.data, Status_FILE_NOT_FOUND)
                THEN Then(read_from_data_connection(x), LAMBDA y :
                        Then(receive_command_data([y EXCEPT !.data = x.data \o ReplaceEscapedCRLF(y.val)]),
                             LAMBDA z : {[z EXCEPT !.data = z.data \o z.val]}))
                ELSE {x})
        s1 == Then(is_connected(m), is_authenticated)
        s2 == Then(s1, LAMBDA x : data_connection_exit(Then(data_connection_enter(x), body)))
    IN  Then(s2, return_data)

\* data.split('"')[1]
quoted_path(m) ==
    LET fields == Split(m.data, "\"")
    IN  IF Len(fields) < 2 THEN {Raise(m, "IndexError")}
        ELSE {[m EXCEPT !.data = fields[2]]}

\* FtpClient.pwd
pwd(m) ==
    LET body(b) == Then(exchange(b, "PWD", ""), quoted_path)
        s1 == Then(is_connected(m), is_authenticated)
        s2 == Then(s1, LAMBDA x : data_connection_exit(Then(data_connection_enter(x), body)))
    IN  Then(s2, return_data)

\* whether the local file can be opened: the environment decides
LocalFileOutcomes == {"ok", "IOError"}

\* with open(local_filename, 'wb') as f: f.write(file_data), IOError mapped
write_local_file(m, local_filename) ==
    IF m.srv.faithful
    THEN {[Log(m, <<"file_write", local_filename, m.val>>)
              EXCEPT !.local_files[local_filename] = m.val]}
    ELSE {IF o = "ok" THEN Log(m, <<"file_write", local_filename, m.val>>)
          ELSE Raise(m, "LocalIOError") : o \in LocalFileOutcomes}

\* with open(local_filename, 'rb') as local_file: bytearray(local_file.read())
read_local_file(m, local_filename) ==
    IF m.srv.faithful
    THEN IF m.local_files[local_filename] = Absent THEN {Raise(m, "IOError")}
         ELSE {[Log(m, <<"file_read", local_filename>>)
                   EXCEPT !.val = m.local_files[local_filename]]}
    ELSE {IF o = "ok" THEN [Log(m, <<"file_read", local_filename>>) EXCEPT !.val = d]
          ELSE Raise(m, "IOError") : o \in LocalFileOutcomes, d \in Payloads}

\* FtpClient.retrieve
retrieve(m, filename, local_filename) ==
    LET body(b) ==
            Then(exchange(b, "RETR", filename), LAMBDA x :
                IF ~StartsWith(x.data, Status_FILE_NOT_FOUND)
                THEN Then(read_from_data_connection(x),
                          LAMBDA y : write_local_file(y, local_filename))
                ELSE {x})
        s1 == Then(is_connected(m), is_authenticated)
        s2 == Then(s1, LAMBDA x : data_connection_exit(Then(data_connection_enter(x), body)))
    IN  Then(s2, LAMBDA x : {Return(x, NoneRet)})

\* except IOError: socket.timeout and every other socket error are IOError
\* (OSError) in Python 3; the client's own exception classes are not
IsIOError(e) == e \in {"IOError", "OSError", "socket.timeout"}

\* FtpClient.store
store(m, local_filename, filename) ==
    LET tried(b) ==
            Then(read_local_file(b, local_filename), LAMBDA x :
              Then(Then(send_command(x, "STOR", filename), receive_command_data),
                LAMBDA y : Then(write_to_data_connection(y, x.val), receive_command_data)))
        body(b) ==
            {IF IsIOError(x.err) THEN Raise(x, "LocalIOError") ELSE x : x \in tried(b)}
        s1 == Then(is_connected(m), is_authenticated)
        s2 == Then(s1, LAMBDA x : data_connection_exit(Then(data_connection_enter(x), body)))
    IN  Then(s2, LAMBDA x : {Return(x, NoneRet)})

-----------------------------------------------------------------------------
(* The client as a state machine: one action per public operation *)

\* the remote files and the local disk before the client runs: one file
\* on each side
InitialFiles(d) == [f \in RemoteNames |-> IF f = "TestUpload.kml" THEN d ELSE Absent]
InitialDisk(d) == [f \in LocalNames |-> IF f = "TestUpload.kml" THEN d ELSE Absent]

Server(faithful, d) ==
    [faithful |-> faithful, peer |-> None, user |-> None, files |-> InitialFiles(d),
     unread |-> <<>>, flight |-> <<>>, listen |-> NoPort, dconn |-> "none",
     out |-> NoData,
     up |-> None, rnfr |-> None]

\* Nothing tracked.  Otherwise track.kind is
\*   "rename"        rename(a, b) returned last, or list calls since; before
\*                   holds the remote files when it was called
\*   "renamed back"  so did rename(a, b), right after a tracked rename(b, a);
\*                   first holds the remote files when that one was called
\*   "store"         store(a, b) returned last: local path a, remote name b
\*   "round trip"    retrieve(name, b) returned right after store(a, name)
NoTrack == [kind |-> "none", a |-> None, b |-> None,
            before |-> InitialFiles(<<>>), first |-> InitialFiles(<<>>)]

Tracked(m) ==
    IF m.err # NoErr THEN (IF m.op[1] = "list" THEN track ELSE NoTrack)
    ELSE IF m.op[1] = "list" /\ track.kind \in {"rename", "renamed back"} THEN track
    ELSE IF m.op[1] = "rename" THEN
        IF /\ track.kind \in {"rename", "renamed back"}
           /\ m.op[2] = track.b /\ m.op[3] = track.a
        THEN [kind |-> "renamed back", a |-> m.op[2], b |-> m.op[3],
              before |-> srv.files, first |-> track.before]
        ELSE [NoTrack EXCEPT !.kind = "rename", !.a = m.op[2], !.b = m.op[3],
                             !.before = srv.files]
    ELSE IF m.op[1] = "store" THEN
        [NoTrack EXCEPT !.kind = "store", !.a = m.op[2], !.b = m.op[3]]
    ELSE IF /\ m.op[1] = "retrieve" /\ track.kind = "store"
            /\ m.op[2] = track.b /\ m.op[3] # track.a
    THEN [NoTrack EXCEPT !.kind = "round trip", !.a = track.a, !.b = m.op[3]]
    ELSE NoTrack

\* The threads of the front-end: the GUI thread, which runs the handlers,
\* and the transfer threads the handlers start.  A thread is idle, started
\* (a transfer thread whose run has not been entered yet) or in a call of
\* the client; the GUI thread is closed once closeEvent has returned.
GuiThread == 0
Workers == 1..MaxThreads
Threads == {GuiThread} \cup Workers
Idle == <<"idle">>

\* FtpClient.__init__, given the world the client runs in
Constructed ==
    /\ host = None
    /\ user = None
    /\ command_socket = "fresh"
    /\ data_socket = "fresh"
    /\ data_port = NoPort
    /\ data_socket_is_connected = FALSE
    /\ lastOp = <<"__init__", "">>
    /\ result = NoErr
    /\ ret = NoneRet
    /\ wire = <<>>
    /\ pre = [host |-> None, user |-> None, data_socket_is_connected |-> FALSE,
              command_socket |-> "fresh", data_socket |-> "fresh",
              data_port |-> NoPort,
              everConnected |-> FALSE, login230 |-> FALSE, loggedOut |-> FALSE,
              note |-> "constructed"]
    /\ everConnected = FALSE
    /\ login230 = FALSE
    /\ loggedOut = FALSE
    /\ note = "constructed"
    /\ track = NoTrack
    /\ running = [t \in Threads |-> Idle]

\* the client facing any server, on any disk
Init ==
    /\ Constructed
    /\ srv = Server(FALSE, <<>>)
    /\ local_files = InitialDisk(<<>>)

\* the client facing a faithful server
InitFaithful ==
    /\ Constructed
    /\ srv = Server(TRUE, <<"a", "\\", "r", "\\", "n">>)
    /\ \E d \in Payloads : local_files = InitialDisk(d)

\* the control connection was established during the call
Established(w) == \E i \in 1..Len(w) : w[i][1] = "connect"

\* the replies read right after command was sent (none or one per call)
RepliesTo(w, command) ==
    {w[i + 1][2] : i \in {j \in 1..(Len(w) - 1) :
                            /\ w[j][1] = "send" /\ w[j][2] = command
                            /\ w[j + 1][1] = "recv"}}

\* the reply read after PASS began with 230, with 530
Got230(w) == \E r \in RepliesTo(w, "PASS") : StartsWith(r, Status_LOGIN_SUCCESS)
Got530(w) == \E r \in RepliesTo(w, "PASS") : StartsWith(r, Status_LOGIN_FAIL)

\* what the next call may need to know about this one
NoteOf(m) ==
    IF m.err \in {"UnknownHost", "ConnectionRefused"} THEN m.err
    ELSE IF Got230(m.wire) THEN "login230"
    ELSE IF Got530(m.wire) THEN "login530"
    ELSE IF \E c \in {"LIST", "RETR"} : \E r \in RepliesTo(m.wire, c) :
                StartsWith(r, Status_FILE_NOT_FOUND) THEN "notfound"
    ELSE "other"

\* the call returns or raises: the fields, what the caller saw, the history
Commit(m) ==
    /\ host' = m.host
    /\ user' = m.user
    /\ command_socket' = m.command_socket
    /\ data_socket' = m.data_socket
    /\ data_port' = m.data_port
    /\ data_socket_is_connected' = m.data_socket_is_connected
    /\ lastOp' = m.op
    /\ result' = m.err
    /\ ret' = IF m.err = NoErr THEN m.ret ELSE NoneRet
    /\ wire' = m.wire
    /\ pre' = [host |-> host, user |-> user,
               data_socket_is_connected |-> data_socket_is_connected,
               command_socket |-> command_socket, data_socket |-> data_socket,
               data_port |-> data_port,
               everConnected |-> everConnected, login230 |-> login230,
               loggedOut |-> loggedOut, note |-> note]
    /\ everConnected' = (everConnected \/ Established(m.wire))
    /\ login230' = IF Established(m.wire) THEN FALSE
                   ELSE (login230 \/ Got230(m.wire))
    /\ loggedOut' = IF m.op[1] = "logout" /\ m.err = NoErr THEN TRUE
                    ELSE IF Got230(m.wire) THEN FALSE
                    ELSE loggedOut
    /\ note' = NoteOf(m)
    /\ srv' = Arrive(m).srv
    /\ local_files' = m.local_files
    /\ track' = IF m.srv.faithful THEN Tracked(m) ELSE NoTrack

\* a call made by the only thread there is
Finish(m) == Commit(m) /\ UNCHANGED running

FileNames == {"TestUpload.kml"}
DirNames  == {"dir"}

Connect    == \E h \in Hosts : \E m \in connect(Frame(<<"connect", h>>), h) : Finish(m)
Login      == \E u \in Users : \E m \in login(Frame(<<"login", u>>), u) : Finish(m)
Logout     == \E m \in logout(Frame(<<"logout", "">>)) : Finish(m)
Disconnect == \E m \in disconnect(Frame(<<"disconnect", "">>)) : Finish(m)
List       == \E f \in FileNames : \E m \in list(Frame(<<"list", f>>), f) : Finish(m)
Pwd        == \E m \in pwd(Frame(<<"pwd", "">>)) : Finish(m)
Cwd        == \E d \in DirNames : \E m \in cwd(Frame(<<"cwd", d>>), d) : Finish(m)
Cdup       == \E m \in cdup(Frame(<<"cdup", "">>)) : Finish(m)
Mkd        == \E d \in DirNames : \E m \in mkd(Frame(<<"mkd", d>>), d) : Finish(m)
Dele       == \E f \in FileNames : \E m \in dele(Frame(<<"dele", f>>), f) : Finish(m)
Rm         == \E f \in FileNames : \E m \in rm(Frame(<<"rm", f>>), f) : Finish(m)
Rmd        == \E d \in DirNames : \E m \in rmd(Frame(<<"rmd", d>>), d) : Finish(m)
Rmdir      == \E d \in DirNames : \E m \in rmdir(Frame(<<"rmdir", d>>), d) : Finish(m)
Rename     == \E old \in RemoteNames : \E new \in RemoteNames \ {old} :
                \E m \in rename(Frame(<<"rename", old, new>>), old, new) : Finish(m)
Retrieve   == \E f \in FileNames : \E l \in LocalNames :
                \E m \in retrieve(Frame(<<"retrieve", f, l>>), f, l) : Finish(m)
Store      == \E l \in LocalNames : \E f \in FileNames :
                \E m \in store(Frame(<<"store", l, f>>), l, f) : Finish(m)

Next ==
    \/ Connect \/ Login \/ Logout \/ Disconnect
    \/ List \/ Pwd \/ Cwd \/ Cdup \/ Mkd \/ Dele \/ Rm \/ Rmd \/ Rmdir
    \/ Rename \/ Retrieve \/ Store

Spec == Init /\ [][Next]_vars

\* the client run against a faithful server: the operations of a session
\* that lists, renames and transfers files
NextFaithful ==
    \/ Connect \/ Login
    \/ List \/ Rename \/ Retrieve \/ Store

SpecFaithful == InitFaithful /\ [][NextFaithful]_vars

\* FtpClient._write_to_data_connection called on its own, as the internal
\* interface of the data connection: no gate and no open precede it
WriteToDataConnection ==
    \E d \in Payloads :
        \E m \in write_to_data_connection(Frame(<<"_write_to_data_connection", "">>), d) :
            Finish(m)

NextInternal == Next \/ WriteToDataConnection

\* the client with its data-connection write callable directly
SpecInternal == Init /\ [][NextInternal]_vars

-----------------------------------------------------------------------------
(* The front-end (gui.py): handlers on the GUI thread, transfers on threads *)

\* what a call does to the client, by the time it returns.  The socket
\* calls of two overlapping calls are not interleaved any further: each call
\* acts on the fields as it finds them when it returns.
Call(op) ==
    CASE op[1] = "connect"    -> connect(Frame(op), op[2])
      [] op[1] = "login"      -> login(Frame(op), op[2])
      [] op[1] = "list"       -> list(Frame(op), op[2])
      [] op[1] = "disconnect" -> disconnect(Frame(op))
      [] op[1] = "retrieve"   -> retrieve(Frame(op), op[2], op[3])
      [] op[1] = "store"      -> store(Frame(op), op[2], op[3])

\* the fields of the client and the history kept about it
session == <<host, user, command_socket, data_socket, data_port,
             data_socket_is_connected, lastOp, result, ret, wire, pre,
             everConnected, login230, loggedOut, note, srv, local_files, track>>

\* the event loop is ready to run a handler
GuiIdle == running[GuiThread] = Idle

\* a handler calls the client on the GUI thread, which blocks in the call
Called(op) == [running EXCEPT ![GuiThread] = <<"in call", op>>]

\* thread = ...Thread(self, filename); thread.start(): the handler returns
\* without waiting for the thread (threads that have ended are forgotten)
FreeThread == CHOOSE t \in Workers :
                 running[t] = Idle /\ \A u \in Workers : u < t => running[u] # Idle
Started(op) == [running EXCEPT ![FreeThread] = <<"started", op>>]

\* what the forms of the window hold: the host and the user of the debug
\* placeholders or a host that refuses, and one file name
GuiHosts == {HostNames[1]} \cup RefusingHosts
GuiUsers == {UserNames[1]}

\* FTPClientGUI.handle_connect
HandleConnect ==
    /\ GuiIdle
    /\ \E h \in GuiHosts : running' = Called(<<"connect", h>>)
    /\ UNCHANGED session

\* FTPClientGUI.handle_login
HandleLogin ==
    /\ GuiIdle
    /\ \E u \in GuiUsers : running' = Called(<<"login", u>>)
    /\ UNCHANGED session

\* FTPClientGUI.handle_list: list() without a filename
HandleList ==
    /\ GuiIdle
    /\ running' = Called(<<"list", None>>)
    /\ UNCHANGED session

\* FTPClientGUI.closeEvent
CloseEvent ==
    /\ GuiIdle
    /\ running' = Called(<<"disconnect", "">>)
    /\ UNCHANGED session

\* FTPClientGUI.handle_retrieve: retrieve(filename), so that the local name
\* is the remote one
HandleRetrieve ==
    /\ GuiIdle
    /\ \E t \in Workers : running[t] = Idle
    /\ \E f \in FileNames : running' = Started(<<"retrieve", f, f>>)
    /\ UNCHANGED session

\* FTPClientGUI.handle_store: store(filename), so that the remote name is
\* the local one
HandleStore ==
    /\ GuiIdle
    /\ \E t \in Workers : running[t] = Idle
    /\ \E f \in FileNames : running' = Started(<<"store", f, f>>)
    /\ UNCHANGED session

\* the call of a handler returns or raises, and so does the handler
GuiReturns ==
    /\ running[GuiThread][1] = "in call"
    /\ \E m \in Call(running[GuiThread][2]) : Commit(m)
    /\ running' = [running EXCEPT ![GuiThread] =
                      IF running[GuiThread][2][1] = "disconnect"
                      THEN <<"closed">> ELSE Idle]

\* StoreThread.run / RetrieveThread.run is entered and calls the client
ThreadRuns ==
    \E t \in Workers :
        /\ running[t][1] = "started"
        /\ running' = [running EXCEPT ![t] = <<"in call", running[t][2]>>]
        /\ UNCHANGED session

\* the call of a transfer thread returns or raises, and the thread ends
ThreadReturns ==
    \E t \in Workers :
        /\ running[t][1] = "in call"
        /\ \E m \in Call(running[t][2]) : Commit(m)
        /\ running' = [running EXCEPT ![t] = Idle]

NextGui ==
    \/ HandleConnect \/ HandleLogin \/ HandleList \/ CloseEvent
    \/ HandleRetrieve \/ HandleStore
    \/ GuiReturns \/ ThreadRuns \/ ThreadReturns

\* the client as the front-end drives it
SpecGui == Init /\ [][NextGui]_vars

\* the threads that are inside a call of the client
InProgress == {t \in Threads : running[t][1] = "in call"}

-----------------------------------------------------------------------------
(* Properties *)

\* the operations that require an authenticated session
AuthOps == {"logout", "list", "pwd", "cwd", "cdup", "mkd", "dele", "rm", "rmd",
            "rmdir", "rename", "retrieve", "store"}
\* every public operation but connect
GatedOps == AuthOps \cup {"login", "disconnect"}

C2_NotAuthenticatedBeforeLogin ==
    (lastOp[1] \in AuthOps /\ pre.host # None /\ ~pre.login230)
        => result = "NotAuthenticated"

\* C2 witness: a retrieve refused right after a login answered 530
C2_Witness ==
    /\ lastOp[1] = "retrieve" /\ pre.host # None /\ ~pre.login230
    /\ pre.note = "login530"
    /\ result = "NotAuthenticated"

\* C3: in every reachable state, user is set only if host is set.
C3_UserOnlyIfHost == user # None => host # None

\* C3 witness: a failed call on an authenticated session cleared both
C3_Witness ==
    /\ pre.user # None /\ pre.host # None
    /\ result = "UnknownHost"
    /\ user = None /\ host = None

\* what a call did, read off its trace
Sent(w, command) == \E i \in 1..Len(w) : w[i][1] = "send" /\ w[i][2] = command
SentAny(w) == \E i \in 1..Len(w) : w[i][1] = "send"
Did(w, event) == \E i \in 1..Len(w) : w[i][1] = event
\* exceptions that come from a socket call failing, not from the client's logic
SocketFaults == {"SocketTimeout", "socket.timeout", "OSError"}
\* the operations that use the data channel
DataOps == {"list", "pwd", "retrieve", "store"}

\* C4: disconnect on a Connected session, authenticated or not, sends QUIT,
\* returns the QUIT reply and leaves host and user unset (unless a socket
\* call of the exchange itself fails).
C4_DisconnectAnyConnected ==
    (lastOp[1] = "disconnect" /\ pre.host # None /\ result \notin SocketFaults)
        => /\ result = NoErr
           /\ Sent(wire, "QUIT")
           /\ ret \in RepliesTo(wire, "QUIT")
           /\ host = None /\ user = None

\* C5: a login on a Connected session whose PASS reply begins with 230
\* records the given user, one whose PASS reply begins with 530 clears the
\* user; both return that reply; an authenticated operation that follows a
\* 530 login fails with NotAuthenticated.
C5_LoginRecordsUser ==
    /\ lastOp[1] = "login" =>
         \A r \in RepliesTo(wire, "PASS") :
            /\ StartsWith(r, Status_LOGIN_SUCCESS)
                 => (user = lastOp[2] /\ result = NoErr /\ ret = r)
            /\ StartsWith(r, Status_LOGIN_FAIL)
                 => (user = None /\ result = NoErr /\ ret = r)
    /\ (lastOp[1] \in AuthOps /\ pre.note = "login530") => result = "NotAuthenticated"

\* C5 witness: a 530 login under another name cleared an authenticated user
C5_Witness ==
    /\ lastOp[1] = "login" /\ pre.user # None /\ pre.user # lastOp[2]
    /\ Got530(wire)
    /\ user = None /\ StartsWith(ret, Status_LOGIN_FAIL)

\* C6: a logout right after a login answered 230 returns having sent
\* nothing, with host unchanged and user unset; from then on, while the
\* session stays Connected, every authenticated operation fails with
\* NotAuthenticated until a login is answered 230 again.
C6_LoginThenLogout ==
    /\ (lastOp[1] = "logout" /\ pre.note = "login230")
         => /\ result = NoErr
            /\ host = pre.host /\ host # None
            /\ user = None
            /\ wire = <<>>
    /\ (lastOp[1] \in AuthOps /\ pre.loggedOut /\ pre.host # None)
         => result = "NotAuthenticated"

\* C6 witness: an authenticated operation refused after login then logout
C6_Witness ==
    /\ lastOp[1] = "list" /\ pre.loggedOut /\ pre.host # None
    /\ pre.everConnected /\ pre.login230
    /\ result = "NotAuthenticated"

\* C7: when a data-bearing operation that opened the data channel returns
\* or raises, the data channel is marked not-open.
C7_DataChannelClosedOnExit ==
    (lastOp[1] \in DataOps /\ Did(wire, "data_connect")) => ~data_socket_is_connected

\* C8: when the reply to LIST or RETR begins with 550, list and retrieve
\* read nothing from the data channel and write no local file, return
\* normally with the data channel closed and a fresh data socket; the next
\* data-bearing operation starts by negotiating a new data channel.
C8_NotFoundSkipsDataPhase ==
    /\ (lastOp[1] \in {"list", "retrieve"} /\ note = "notfound")
         => /\ result = NoErr
            /\ ~Did(wire, "data_read") /\ ~Did(wire, "file_write")
            /\ Did(wire, "data_close")
            /\ ~data_socket_is_connected /\ data_socket = "fresh"
    /\ (lastOp[1] \in DataOps /\ pre.note = "notfound" /\ wire # <<>>)
         => /\ wire[1] = <<"send", "EPSV", "">>
            /\ Did(wire, "data_connect") => wire[3][1] = "data_connect"

\* C8 witness: a data channel opened right after a list answered 550
C8_Witness ==
    /\ lastOp[1] \in DataOps /\ pre.note = "notfound"
    /\ Did(wire, "data_connect")
    /\ result = NoErr

\* C9: rename sends RNFR old first; RNTO new is sent only right after an
\* RNFR reply that does not begin with 550 was read, and is sent whenever
\* the call returns after such a reply; after a 550 the call returns with
\* no RNTO sent.
C9_RenameOrder ==
    lastOp[1] = "rename" =>
        /\ SentAny(wire) => wire[1] = <<"send", "RNFR", lastOp[2]>>
        /\ \A i \in 1..Len(wire) :
             (wire[i][1] = "send" /\ wire[i][2] = "RNTO")
                => /\ i = 3
                   /\ wire[i][3] = lastOp[3]
                   /\ wire[1] = <<"send", "RNFR", lastOp[2]>>
                   /\ wire[2][1] = "recv"
                   /\ ~StartsWith(wire[2][2], Status_FILE_NOT_FOUND)
        /\ \A r \in RepliesTo(wire, "RNFR") :
             IF StartsWith(r, Status_FILE_NOT_FOUND)
             THEN result = NoErr /\ ~Sent(wire, "RNTO")
             ELSE result = NoErr => Sent(wire, "RNTO")

\* C9 witness: a rename whose RNFR was answered 550
C9_Witness ==
    /\ lastOp[1] = "rename"
    /\ Status_FILE_NOT_FOUND \in RepliesTo(wire, "RNFR")
    /\ result = NoErr /\ Len(wire) = 2

\* C10: an operation that fails with UnknownHost (connect, or list, pwd,
\* retrieve, store while opening the data channel) leaves host and user
\* unset and the data channel not open; a connect to a resolvable, accepting
\* host that follows it returns the greeting and sets host.
C10_UnknownHostResets ==
    /\ result = "UnknownHost"
         => /\ lastOp[1] \in DataOps \cup {"connect"}
            /\ host = None /\ user = None
            /\ ~data_socket_is_connected
    /\ (lastOp[1] = "connect" /\ lastOp[2] \in GoodHosts /\ pre.note = "UnknownHost")
         => /\ result = NoErr
            /\ host = lastOp[2]
            /\ ret = R220

\* C10 witness: a connect that succeeds after a data-channel open failed
\* with UnknownHost on an authenticated session
C10_Witness ==
    /\ lastOp[1] = "connect" /\ pre.note = "UnknownHost"
    /\ pre.everConnected /\ pre.login230
    /\ result = NoErr /\ host \in GoodHosts

\* C11: an operation that fails with ConnectionRefused leaves host and user
\* as they were when the connection was attempted: after a refused
\* data-channel open (list, pwd, retrieve, store) the session is still
\* authenticated on the same host and the data channel is not open; after a
\* refused connect on a disconnected client the client is still disconnected
\* and keeps its unconnected command socket, and a later connect to an
\* accepting host is attempted on that socket and, once the socket connects,
\* returns the greeting and sets host.
C11_RefusedLeavesSession ==
    /\ result = "ConnectionRefused" => lastOp[1] \in DataOps \cup {"connect"}
    /\ (result = "ConnectionRefused" /\ lastOp[1] \in DataOps)
         => /\ host = pre.host /\ host # None
            /\ user = pre.user /\ user # None
            /\ ~data_socket_is_connected
            /\ ~Did(wire, "data_connect")
    /\ (result = "ConnectionRefused" /\ lastOp[1] = "connect" /\ pre.host = None)
         => /\ host = None /\ user = None
            /\ ~data_socket_is_connected
            /\ command_socket = "failed"
    /\ (/\ lastOp[1] = "connect" /\ lastOp[2] \in GoodHosts
        /\ pre.note = "ConnectionRefused" /\ pre.host = None)
         => /\ result \in {NoErr, "OSError"}
            /\ Established(wire) <=> result = NoErr
            /\ result = NoErr => host = lastOp[2] /\ ret = R220

\* C11 witness: a connect that succeeds right after a connect on a
\* disconnected client was refused
C11_Witness ==
    /\ lastOp[1] = "connect" /\ pre.note = "ConnectionRefused"
    /\ pre.host = None /\ ~pre.everConnected
    /\ result = NoErr /\ host \in GoodHosts

\* C12: an operation that fails with NotConnected or NotAuthenticated has
\* sent no command, made no socket or file call at all, and leaves host,
\* user, both sockets, the data port and the data-channel flag as they were;
\* the failure is NotConnected exactly when host was unset (so also when
\* both host and user were unset) and NotAuthenticated only when host was
\* set and user was not.
C12_GateFailureTouchesNothing ==
    /\ result \in {"NotConnected", "NotAuthenticated"}
         => /\ lastOp[1] \in GatedOps
            /\ wire = <<>>
            /\ host = pre.host /\ user = pre.user
            /\ data_socket_is_connected = pre.data_socket_is_connected
            /\ data_socket = pre.data_socket /\ data_port = pre.data_port
            /\ command_socket = pre.command_socket
    /\ (lastOp[1] \in GatedOps /\ pre.host = None) => result = "NotConnected"
    /\ result = "NotAuthenticated" => pre.host # None /\ pre.user = None
    /\ result = "NotConnected" => pre.host = None

\* C12 witness: NotAuthenticated on a connected session whose data channel
\* an earlier operation left marked open
C12_Witness ==
    /\ lastOp[1] \in DataOps /\ result = "NotAuthenticated"
    /\ pre.host # None /\ pre.data_socket_is_connected
    /\ data_socket_is_connected /\ wire = <<>>

\* C13: connect on a connected session closes the old command socket and
\* resets the session before it attempts the new connection: whatever the
\* outcome, the previous user is cleared and the data channel is not open
\* (also when an earlier operation had left it marked open); when the new
\* connection is established host is the new host, and after a successful
\* reconnect the session is connected to the new host and not authenticated.
C13_ReconnectResets ==
    (lastOp[1] = "connect" /\ pre.host # None)
        => /\ user = None
           /\ ~data_socket_is_connected
           /\ data_socket = "fresh" /\ data_port = pre.data_port
           /\ wire # <<>> /\ wire[1] = <<"close_command_socket">>
           /\ \A i \in 1..Len(wire) : wire[i][1] = "connect" => i = 2
           /\ Established(wire) => host = lastOp[2]
           /\ ~Established(wire) => host = None
           /\ result = NoErr => /\ host = lastOp[2]
                                /\ ret = R220
                                /\ Established(wire)

\* C13 witness: a successful reconnect to another host from an authenticated
\* session whose data channel was left marked open
C13_Witness ==
    /\ lastOp[1] = "connect" /\ result = NoErr
    /\ pre.host # None /\ pre.host # lastOp[2]
    /\ pre.user # None /\ pre.data_socket_is_connected
    /\ host = lastOp[2] /\ user = None /\ ~data_socket_is_connected

\* the replies read during the call, in order, and their concatenation
RepliesRead(w) == SelectSeq(w, LAMBDA e : e[1] = "recv")
RECURSIVE Concatenated(_)
Concatenated(rs) == IF rs = <<>> THEN <<>> ELSE rs[1][2] \o Concatenated(Tail(rs))

\* C14: a public operation that runs a transaction and returns normally
\* returns reply bytes, never None: rename the last reply it read (the 550
\* reply when the source is missing), retrieve the reply to RETR, store the
\* concatenation of the replies it read after STOR.
C14_ReturnsReplyBytes ==
    (result = NoErr /\ lastOp[1] \in GatedOps \cup {"connect"} /\ SentAny(wire))
        => /\ ret # NoneRet
           /\ lastOp[1] = "rename"
                => ret = RepliesRead(wire)[Len(RepliesRead(wire))][2]
           /\ lastOp[1] = "retrieve" => ret \in RepliesTo(wire, "RETR")
           /\ lastOp[1] = "store"
                => \E k \in 1..Len(RepliesRead(wire)) :
                      ret = Concatenated(SubSeq(RepliesRead(wire), k, Len(RepliesRead(wire))))

\* the exception classes FtpClient defines
ErrorKinds == {"UnknownHost", "ConnectionRefused", "NotConnected", "NotAuthenticated",
               "SocketTimeout", "LocalIOError"}

\* C15: a public operation returns normally or fails with one of the error
\* kinds UnknownHost, ConnectionRefused, NotConnected, NotAuthenticated,
\* SocketTimeout, LocalIOError, ClosedDataConnection; nothing else reaches
\* the caller.
C15_ClosedErrorSet == result \in {NoErr, "ClosedDataConnection"} \cup ErrorKinds

\* C18: store reads the local file before it opens the data channel: in a
\* store that read the file, the read is the first thing the call did; a
\* store whose local file cannot be opened or read fails with LocalIOError
\* having sent no command (neither EPSV nor STOR), having made no data
\* connection, and with the data channel not open.
C18_StoreReadsFileFirst ==
    lastOp[1] = "store" =>
        /\ Did(wire, "file_read") => wire[1][1] = "file_read"
        /\ (result = "LocalIOError" /\ ~Did(wire, "file_read"))
             => /\ ~SentAny(wire)
                /\ ~Did(wire, "data_connect")
                /\ ~data_socket_is_connected

\* C19: a write on the data channel while the channel is not marked open
\* fails with ClosedDataConnection and writes nothing; a write that
\* completes on an open channel has written the whole buffer and then
\* closed the data socket.
C19_WriteNeedsOpenChannel ==
    lastOp[1] = "_write_to_data_connection" =>
        /\ ~pre.data_socket_is_connected
             => result = "ClosedDataConnection" /\ wire = <<>>
        /\ (pre.data_socket_is_connected /\ result = NoErr)
             => /\ Len(wire) = 1 /\ wire[1][1] = "data_write"
                /\ wire[1][2] \in Payloads
                /\ data_socket = "closed"

\* C16: against a faithful server, when retrieve(name, other_local_path)
\* returns right after store(local_path, name) returned, other_local_path
\* holds exactly the bytes of local_path, whatever the payload (the empty
\* one, one longer than a recv chunk), and so does the server under name.
C16_StoreRetrieveRoundTrip ==
    track.kind = "round trip"
        => /\ local_files[track.a] # Absent
           /\ local_files[track.b] = local_files[track.a]
           /\ srv.files[lastOp[2]] = local_files[track.a]

\* C16 witness: a round trip of the empty payload into another local path
C16_Witness ==
    /\ track.kind = "round trip" /\ lastOp[1] = "retrieve"
    /\ track.a = "TestUpload.kml" /\ track.b = "copy.kml"
    /\ local_files[track.a] = <<>> /\ local_files[track.b] = <<>>
    /\ Did(wire, "file_write")

\* C17: against a faithful server, when rename(b, a) returns after
\* rename(a, b) returned, with nothing but list calls between them, the
\* remote files are those from before the first rename.
C17_RenameRoundTrip ==
    track.kind = "renamed back" => srv.files = track.first

\* C17, amended: the same, for a name a that was held and a name b that was
\* free before the first rename (in track, a and b are the names of the
\* second rename, so the first renamed track.b to track.a).
C17_RenameRoundTripOfExisting ==
    (/\ track.kind = "renamed back"
     /\ track.first[track.b] # Absent /\ track.first[track.a] = Absent)
        => srv.files = track.first

\* C17 witness: the file was moved by the first rename, listed, and moved
\* back by the second
C17_Witness ==
    /\ track.kind = "renamed back" /\ lastOp[1] = "rename"
    /\ track.first[track.b] # Absent /\ track.first[track.a] = Absent
    /\ track.before[track.a] # Absent /\ track.before[track.b] = Absent
    /\ Sent(wire, "RNTO")
    /\ srv.files = track.first

\* C20: at most one operation is in progress on the client at any time,
\* the store and retrieve operations the front-end starts included.
C20_OneOperationAtATime == Cardinality(InProgress) <= 1

\* C21: against a faithful server, when an operation returns normally no
\* reply of the server is left unread on the control connection (the ones
\* in flight when the call returns have arrived by the next call), so that
\* the next operation reads the reply to its own first command first.
C21_Lockstep ==
    (lastOp[1] # "__init__" /\ result = NoErr) => srv.unread = <<>>

\* the commands that start a transfer on the data connection
TransferCommands == {"LIST", "RETR", "STOR"}

\* C22: a call that found the data channel not marked open marks it open
\* only if its connect on the data socket succeeded, and sends its
\* transfer command only if that connect succeeded: when the connect fails,
\* for whatever reason, the channel stays not open and the operation fails
\* before its command.
C22_OpenOnlyIfDataConnected ==
    ~pre.data_socket_is_connected
        => /\ data_socket_is_connected => Did(wire, "data_connect")
           /\ (\E c \in TransferCommands : Sent(wire, c)) => Did(wire, "data_connect")

\* C23: a login that returns a PASS reply beginning with neither 230 nor 530
\* leaves user as it was before the call.
C23_OtherPassReplyKeepsUser ==
    (/\ lastOp[1] = "login" /\ result = NoErr
     /\ ~StartsWith(ret, Status_LOGIN_SUCCESS)
     /\ ~StartsWith(ret, Status_LOGIN_FAIL))
        => user = pre.user

\* C23 witness: a session authenticated as one user, after a login under
\* another name that was answered 332, is still authenticated as the first
C23_Witness ==
    /\ lastOp[1] = "login" /\ result = NoErr
    /\ ret = R332 /\ ret \in RepliesTo(wire, "PASS")
    /\ pre.user # None /\ lastOp[2] # pre.user
    /\ user = pre.user

====
